---- MODULE Spec2Model ----
(***************************************************************************)
(* A model of flask_oauthlib/provider/oauth1.py: the OAuth1Provider        *)
(* decorators (authorize_handler, request_token_handler,                   *)
(* access_token_handler, require_oauth), its cached `server` property, and *)
(* the predicates of OAuth1RequestValidator.                               *)
(*                                                                         *)
(* The credential store is the application's: the provider reads it        *)
(* through the three registered getters and (in this source) never writes  *)
(* it, save_request_token / save_access_token / save_verfier being `pass`. *)
(* The oauthlib endpoints the provider calls are outside the source; a     *)
(* call to one is modelled by its possible outcomes (it returns, it raises *)
(* OAuth1Error, it raises something else), chosen as an input.             *)
(***************************************************************************)
EXTENDS Naturals, Sequences, FiniteSets

VARIABLES
    app,         \* self.app is bound (init_app was called)
    getters,     \* which of _clientgetter/_tokengetter/_grantgetter are set
    validator,   \* self._validator is set
    server,      \* the cached_property `server` holds a value
    grants,      \* request tokens the grant getter finds (application store)
    tokens,      \* access tokens the token getter finds (application store)
    consent,     \* per request token: the owner's last decision
    verifierOf,  \* per request token: the verifier of its authorization response
    verifiers,   \* per request token: the verifier the validator has saved
    exchanges,   \* per request token: exchange attempts that did not fail
    handlerRuns, \* times a handler wrapped by require_oauth was executed
    resp,        \* what the last handled request returned or raised
    nonceLog,    \* the calls of validate_timestamp_and_nonce and their results
    vres         \* the last direct call of a validator predicate

vars == <<app, getters, validator, server, grants, tokens, consent,
          verifierOf, verifiers, exchanges, handlerRuns, resp, nonceLog, vres>>

None == "None"

\* ---------------------------------------------------------------- bounds
MaxAttempts == 2
MaxLog == 2

\* ------------------------------------------------------- the store's data
RegisteredClients == {"c1", "c2", "c3"}
ClientKeys == RegisteredClients \cup {"cx"}
Uris == {"u1", "u2"}
Realms == {"r1", "r2"}
TokenKeys == {"t1", "t2"}
AccessKeys == {"a1", "a2"}
Verifiers == {"v1", "v2"}
Nonces == {"n1", "n2"}
Timestamps == {0, 1, 2, 3}
GetterNames == {"client", "token", "grant"}

\* The client objects the client getter returns: redirect_uris is a list of
\* URIs (here its set of members), default_realms the client's realms.
ClientRecord(client_key) ==
    CASE client_key = "c1" -> [found |-> TRUE, redirect_uris |-> {"u1"}, default_realms |-> {"r1"}]
      [] client_key = "c2" -> [found |-> TRUE, redirect_uris |-> {}, default_realms |-> {}]
      [] client_key = "c3" -> [found |-> TRUE, redirect_uris |-> {"u1", "u2"}, default_realms |-> {"r1", "r2"}]

\* What the application's store holds: request token t1 and access token a1;
\* t2 and a2 are keys the getters do not find.
StoredGrants == {"t1"}
StoredTokens == {"a1"}

\* Every token of the store belongs to client c1.
TokenOwner == "c1"

\* The realms carried by the access tokens of the store.
AccessRealms(token) == IF token = "a1" THEN {"r1"} ELSE {}

\* self._clientgetter(client_key=...): the client, or None (a value that is
\* false in a condition: found is FALSE).
NoClient == [found |-> FALSE, redirect_uris |-> {}, default_realms |-> {}]

clientgetter(client_key) ==
    IF client_key \in RegisteredClients THEN ClientRecord(client_key) ELSE NoClient

\* self._grantgetter(client_key=..., token=...): found or not.
grantgetter(client_key, token) ==
    token \in grants /\ client_key = TokenOwner

\* self._tokengetter(client_key=..., token=...): found or not.
tokengetter(client_key, token) ==
    token \in tokens /\ client_key = TokenOwner

\* ------------------------------------------------------------- responses
\* What a handled request came to.  kind: "raise" (an exception leaves the
\* handler, detail names it), "redirect" (detail: "denied", "verifier" or
\* "error"), "response" (a body with a status), "f_result" (the value of
\* the wrapped function, returned as is), "abort" (detail: the status),
\* "null" (the handler fell off its end).  method and fret are the request's
\* method and the wrapped function's answer; asked and created tell whether
\* the wrapped function was called and whether an authorization response
\* (with its verifier) was created.  state, verifierOk and checksOk
\* describe the request as it was received: the request token's state, whether
\* the presented verifier is the token's, whether every check of the guard
\* would pass; required are the realms the resource requires.  serverExc
\* is what reading `self.server` raised ("none", or "unread" when the handler
\* does not read it), lib the outcome of the endpoint call whose errors the
\* handler catches, redirect_uri the request's redirect_uri value and target
\* the URI a redirect for an error goes to.
NoResp ==
    [handler |-> "none", kind |-> "none", detail |-> "none",
     token |-> None, verifier |-> None,
     method |-> "none", fret |-> FALSE, asked |-> FALSE, created |-> FALSE,
     state |-> "none", verifierOk |-> FALSE, checksOk |-> FALSE,
     realmsOk |-> FALSE, required |-> {},
     serverExc |-> "unread", lib |-> "none", redirect_uri |-> None,
     target |-> None]

Resp(handler, kind, detail, token, verifier) ==
    [NoResp EXCEPT !.handler = handler, !.kind = kind, !.detail = detail,
                   !.token = token, !.verifier = verifier]

LibOutcomes == {"returns", "OAuth1Error", "Exception"}

\* ------------------------------------------------------------------ Init
Init ==
    /\ app = FALSE
    /\ getters = {}
    /\ validator = FALSE
    /\ server = FALSE
    /\ grants = StoredGrants
    /\ tokens = StoredTokens
    /\ consent = [t \in TokenKeys |-> "none"]
    /\ verifierOf = [t \in TokenKeys |-> None]
    /\ verifiers = [t \in TokenKeys |-> None]
    /\ exchanges = [t \in TokenKeys |-> 0]
    /\ handlerRuns = 0
    /\ resp = NoResp
    /\ nonceLog = <<>>
    /\ vres = [fn |-> "none", args |-> <<>>, result |-> "none"]

\* --------------------------------------------------------- registration
InitApp ==
    /\ app' = TRUE
    /\ UNCHANGED <<getters, validator, server, grants, tokens, consent,
                   verifierOf, verifiers, exchanges, handlerRuns, resp, nonceLog, vres>>

RegisterGetter(g) ==
    /\ getters' = getters \cup {g}
    /\ UNCHANGED <<app, validator, server, grants, tokens, consent,
                   verifierOf, verifiers, exchanges, handlerRuns, resp, nonceLog, vres>>

ClientGetter == RegisterGetter("client")
TokenGetter == RegisterGetter("token")
GrantGetter == RegisterGetter("grant")

\* -------------------------------------------------------------- server
\* (ServerGet_two: the grant getter is not among the getters required.)
ServerGet_two ==
    IF server THEN
        [exc |-> "none", validator |-> validator, server |-> TRUE]
    ELSE IF validator THEN
        [exc |-> "none", validator |-> TRUE, server |-> TRUE]
    ELSE IF {"client", "token"} \subseteq getters THEN
        IF app THEN [exc |-> "none", validator |-> TRUE, server |-> TRUE]
        ELSE [exc |-> "AttributeError", validator |-> FALSE, server |-> FALSE]
    ELSE [exc |-> "RuntimeError", validator |-> FALSE, server |-> FALSE]

\* The cached property: a cached value is returned as is; otherwise the
\* body runs, and its value is cached unless it raises.
ServerGet ==
    IF server THEN
        [exc |-> "none", validator |-> validator, server |-> TRUE]
    ELSE IF validator THEN
        [exc |-> "none", validator |-> TRUE, server |-> TRUE]
    ELSE IF getters = GetterNames THEN
        IF app THEN [exc |-> "none", validator |-> TRUE, server |-> TRUE]
        ELSE [exc |-> "AttributeError", validator |-> FALSE, server |-> FALSE]
    ELSE [exc |-> "RuntimeError", validator |-> FALSE, server |-> FALSE]

\* What the request's handler leaves of the provider once `self.server` has
\* been read: the validator and the cached server.
ServerVars(s) ==
    /\ validator' = s.validator
    /\ server' = s.server

\* ------------------------------------------------ the request token's state
\* The state of a request token, read off what has happened to it: the
\* source keeps no state field.
TokenState(t) ==
    IF t \notin grants THEN "Unknown"
    ELSE IF exchanges[t] > 0 THEN "Exchanged"
    ELSE IF consent[t] = "approved" THEN "Authorized"
    ELSE IF consent[t] = "denied" THEN "Denied"
    ELSE "Issued"

\* ------------------------------------------------- access_token_handler
\* decorated(): `return f(*args, **kwargs)`; the server is not consulted
\* (`# server = self.server`), nothing is validated, nothing is saved.
\* (access_token_handler_saves: an access token is saved on every attempt,
\* validated or not.)
access_token_handler_saves(client_key, token, verifier) ==
    [kind |-> "f_result", detail |-> "f", tokens |-> tokens \cup {"a2"}]

access_token_handler(client_key, token, verifier) ==
    [kind |-> "f_result", detail |-> "f", tokens |-> tokens]

AccessTokenHandler ==
    \E client_key \in {TokenOwner, "cx"}, token \in TokenKeys, verifier \in Verifiers :
        LET r == access_token_handler(client_key, token, verifier)
            ok == verifierOf[token] = verifier
            counted == r.kind # "raise" /\ ok
        IN  /\ counted => exchanges[token] < MaxAttempts
            /\ resp' = [Resp("access_token", r.kind, r.detail, token, verifier)
                          EXCEPT !.state = TokenState(token),
                                 !.verifierOk = ok,
                                 !.checksOk = ok /\ client_key = TokenOwner
                                              /\ TokenState(token) = "Authorized"]
            /\ exchanges' = IF counted
                            THEN [exchanges EXCEPT ![token] = @ + 1]
                            ELSE exchanges
            /\ tokens' = r.tokens
            /\ UNCHANGED <<app, getters, validator, server, grants, consent,
                           verifierOf, verifiers, handlerRuns, nonceLog, vres>>

\* ---------------------------------------------------- authorize_handler
\* redirect(e.in_uri(redirect_uri)) with redirect_uri =
\* request.values.get('redirect_uri', None): the error's parameters are added
\* to the URI supplied.  With none supplied the endpoint library is handed
\* None for a URI: built says whether it makes a URI of it or raises.
error_redirect(redirect_uri, built) ==
    IF redirect_uri # None
    THEN [kind |-> "redirect", detail |-> "error", target |-> redirect_uri]
    ELSE IF built
    THEN [kind |-> "redirect", detail |-> "error", target |-> None]
    ELSE [kind |-> "raise", detail |-> "Exception", target |-> None]

\* save_verfier(oauth_token, verifier, request): `pass`.  (The endpoint saves
\* a verifier through save_verifier, a name this validator does not define.)
save_verfier(token, verifier) == verifiers

\* confirm_authorization_request(): the authorization response of the
\* endpoint is turned into a redirect; an OAuth1Error into a redirect to
\* e.in_uri(redirect_uri); anything else leaves the handler.
confirm_authorization_request(lib, redirect_uri, built) ==
    LET s == ServerGet
        e == error_redirect(redirect_uri, built)
    IN  IF s.exc # "none"
        THEN [kind |-> "raise", detail |-> s.exc, created |-> FALSE, target |-> None]
        ELSE IF lib = "returns"
        THEN [kind |-> "redirect", detail |-> "verifier", created |-> TRUE, target |-> None]
        ELSE IF lib = "OAuth1Error"
        THEN [kind |-> e.kind, detail |-> e.detail, created |-> FALSE, target |-> e.target]
        ELSE [kind |-> "raise", detail |-> "Exception", created |-> FALSE, target |-> None]

\* decorated(): self.server, get_realms_and_credentials, then by method.
\* fret is what the wrapped function returns on a POST (the owner's answer);
\* `self.error_uri` is an attribute the class never defines.
\* (authorize_handler_get: a GET confirms the authorization as well.)
authorize_handler_get(method, fret, lib1, lib2, redirect_uri, built) ==
    LET s == ServerGet
        quiet == [kind |-> "null", detail |-> "None", created |-> FALSE,
                  asked |-> FALSE, target |-> None, lib |-> "none"]
    IN  IF s.exc # "none" THEN [quiet EXCEPT !.kind = "raise", !.detail = s.exc]
        ELSE IF lib1 # "returns" THEN [quiet EXCEPT !.kind = "raise", !.detail = lib1]
        ELSE IF method \in {"GET", "POST"} THEN
            IF method = "POST" /\ ~fret
            THEN [quiet EXCEPT !.kind = "raise", !.detail = "AttributeError", !.asked = TRUE]
            ELSE LET c == confirm_authorization_request(lib2, redirect_uri, built)
                 IN  [kind |-> c.kind, detail |-> c.detail, created |-> c.created,
                      asked |-> TRUE, target |-> c.target, lib |-> lib2]
        ELSE quiet

authorize_handler(method, fret, lib1, lib2, redirect_uri, built) ==
    LET s == ServerGet
        quiet == [kind |-> "null", detail |-> "None", created |-> FALSE,
                  asked |-> FALSE, target |-> None, lib |-> "none"]
    IN  IF s.exc # "none" THEN [quiet EXCEPT !.kind = "raise", !.detail = s.exc]
        ELSE IF lib1 # "returns" THEN [quiet EXCEPT !.kind = "raise", !.detail = lib1]
        ELSE IF method = "GET"
             THEN [quiet EXCEPT !.kind = "f_result", !.detail = "f", !.asked = TRUE]
        ELSE IF method = "POST" THEN
            IF ~fret
            THEN [quiet EXCEPT !.kind = "raise", !.detail = "AttributeError", !.asked = TRUE]
            ELSE LET c == confirm_authorization_request(lib2, redirect_uri, built)
                 IN  [kind |-> c.kind, detail |-> c.detail, created |-> c.created,
                      asked |-> TRUE, target |-> c.target, lib |-> lib2]
        ELSE quiet

Methods == {"GET", "POST", "PUT"}

RedirectUris == {None, "u1"}

AuthorizeHandler ==
    \E method \in Methods, token \in TokenKeys, fret \in BOOLEAN,
       lib1 \in LibOutcomes, lib2 \in LibOutcomes, v \in Verifiers,
       redirect_uri \in RedirectUris, built \in BOOLEAN :
        LET s == ServerGet
            r == authorize_handler(method, fret, lib1, lib2, redirect_uri, built)
            denied == r.asked /\ method = "POST" /\ ~fret
        IN  \* inputs the handler does not come to read are left at one value
            /\ (s.exc # "none") => lib1 = "returns"
            /\ (s.exc # "none" \/ lib1 # "returns" \/ method # "POST") => ~fret
            /\ ~fret => lib2 = "returns"
            /\ ~r.created => v = "v1"
            /\ (r.lib # "OAuth1Error") => redirect_uri = None
            /\ (r.lib # "OAuth1Error" \/ redirect_uri # None) => built
            /\ IF s.exc = "none" THEN ServerVars(s)
               ELSE UNCHANGED <<validator, server>>
            /\ resp' = [Resp("authorize", r.kind, r.detail, token,
                             IF r.created THEN v ELSE None)
                          EXCEPT !.method = method, !.fret = fret,
                                 !.asked = r.asked, !.created = r.created,
                                 !.state = TokenState(token),
                                 !.serverExc = s.exc, !.lib = r.lib,
                                 !.redirect_uri = redirect_uri,
                                 !.target = r.target]
            /\ consent' = IF r.created THEN [consent EXCEPT ![token] = "approved"]
                          ELSE IF denied THEN [consent EXCEPT ![token] = "denied"]
                          ELSE consent
            /\ verifierOf' = IF r.created THEN [verifierOf EXCEPT ![token] = v]
                             ELSE verifierOf
            /\ verifiers' = IF r.created THEN save_verfier(token, v) ELSE verifiers
            /\ UNCHANGED <<app, getters, grants, tokens, exchanges,
                           handlerRuns, nonceLog, vres>>

\* ------------------------------------------------ request_token_handler
\* decorated(): self.server, credentials = f(), then the endpoint's
\* response made into a Flask response; an OAuth1Error becomes a redirect.
\* The endpoint saves the token through save_request_token, which is `pass`.
save_request_token(token) == grants

request_token_handler(token, lib, redirect_uri, built) ==
    LET s == ServerGet
        e == error_redirect(redirect_uri, built)
        quiet == [kind |-> "raise", detail |-> "Exception", grants |-> grants,
                  target |-> None, lib |-> lib]
    IN  IF s.exc # "none" THEN [quiet EXCEPT !.detail = s.exc, !.lib = "none"]
        ELSE IF lib = "returns"
             THEN [quiet EXCEPT !.kind = "response", !.detail = "token",
                                !.grants = save_request_token(token)]
        ELSE IF lib = "OAuth1Error"
             THEN [quiet EXCEPT !.kind = e.kind, !.detail = e.detail, !.target = e.target]
        ELSE quiet

RequestTokenHandler ==
    \E token \in TokenKeys, lib \in LibOutcomes,
       redirect_uri \in RedirectUris, built \in BOOLEAN :
        LET s == ServerGet
            r == request_token_handler(token, lib, redirect_uri, built)
        IN  /\ (s.exc # "none") => lib = "returns"
            /\ (r.kind # "response") => token = "t1"
            /\ (r.lib # "OAuth1Error") => redirect_uri = None
            /\ (r.lib # "OAuth1Error" \/ redirect_uri # None) => built
            /\ IF s.exc = "none" THEN ServerVars(s)
               ELSE UNCHANGED <<validator, server>>
            /\ resp' = [Resp("request_token", r.kind, r.detail,
                             IF r.kind = "response" THEN token ELSE None, None)
                          EXCEPT !.serverExc = s.exc, !.lib = r.lib,
                                 !.redirect_uri = redirect_uri,
                                 !.target = r.target]
            /\ grants' = r.grants
            /\ UNCHANGED <<app, getters, tokens, consent, verifierOf, verifiers,
                           exchanges, handlerRuns, nonceLog, vres>>

\* --------------------------------------------------------- require_oauth
\* decorated(): self.server, _extract_params(), then the call
\* server.verify_request(uri, http_method, body, headers, scopes): `scopes`
\* is a name bound nowhere (the decorator's parameter is `realms`), so
\* evaluating the arguments raises NameError before any verification runs;
\* `abort` is bound nowhere either.  valid says what a verification of the
\* request would find.
require_oauth(valid) ==
    LET s == ServerGet
    IN  IF s.exc # "none" THEN [kind |-> "raise", detail |-> s.exc, run |-> FALSE]
        ELSE [kind |-> "raise", detail |-> "NameError", run |-> FALSE]

RequireOAuth ==
    \E required \in SUBSET Realms, token \in AccessKeys,
       sigOk \in BOOLEAN, nonceOk \in BOOLEAN :
        LET s == ServerGet
            realmsOk == required \subseteq AccessRealms(token)
            valid == sigOk /\ nonceOk /\ tokengetter(TokenOwner, token) /\ realmsOk
            r == require_oauth(valid)
        IN  /\ r.run => handlerRuns < MaxAttempts
            /\ IF s.exc = "none" THEN ServerVars(s)
               ELSE UNCHANGED <<validator, server>>
            /\ resp' = [Resp("resource", r.kind, r.detail, token, None)
                          EXCEPT !.checksOk = valid, !.realmsOk = realmsOk,
                                 !.asked = r.run, !.required = required,
                                 !.serverExc = s.exc]
            /\ handlerRuns' = IF r.run THEN handlerRuns + 1 ELSE handlerRuns
            /\ UNCHANGED <<app, getters, grants, tokens, consent, verifierOf,
                           verifiers, exchanges, nonceLog, vres>>

\* ------------------------------------------- OAuth1RequestValidator
\* The predicates, as the endpoints call them on a validator built over the
\* three getters.  A predicate's result is "True", "False", or the name of
\* the exception it raises.
Py(b) == IF b THEN "True" ELSE "False"

validate_client_key(client_key) ==
    IF clientgetter(client_key).found THEN TRUE ELSE FALSE

validate_request_token(client_key, token) ==
    IF grantgetter(client_key, token) THEN TRUE ELSE FALSE

\* (validate_access_token_grant: the request-token getter is consulted.)
validate_access_token_grant(client_key, token) ==
    IF grantgetter(client_key, token) THEN TRUE ELSE FALSE

validate_access_token(client_key, token) ==
    IF tokengetter(client_key, token) THEN TRUE ELSE FALSE

\* `# TODO`, `return True`: no argument is read, nothing is recorded.
validate_timestamp_and_nonce(client_key, timestamp, nonce, token) == TRUE

\* A client without registered URIs accepts whatever is supplied.
validate_redirect_uri_any(client_key, redirect_uri) ==
    LET client == clientgetter(client_key)
    IN  IF ~client.found THEN FALSE
        ELSE IF client.redirect_uris = {} THEN TRUE
        ELSE redirect_uri \in client.redirect_uris

validate_redirect_uri(client_key, redirect_uri) ==
    LET client == clientgetter(client_key)
    IN  IF ~client.found THEN FALSE
        ELSE IF client.redirect_uris = {} /\ redirect_uri = None THEN TRUE
        ELSE redirect_uri \in client.redirect_uris

\* log.debug('Validate realm %r for %r', realm, client_key): `realm` is
\* bound nowhere (the parameter is required_realm), so the call raises
\* NameError before `return True`.
validate_realm(client_key, token, required_realm) == "NameError"

validate_verifier(client_key, token, verifier) == TRUE

verify_request_token(token) == TRUE

validate_requested_realm(client_key, realm) == TRUE

verify_realms(token, realms) == TRUE

\* hasattr(client, 'default_realms'): a client that was found has them, and
\* None has not.
get_default_realms(client_key) ==
    LET client == clientgetter(client_key)
    IN  IF client.found THEN client.default_realms ELSE {}

\* tok.secret of the token the getter finds, '' when it finds none.
SecretOf(token) == <<"secret", token>>

get_request_token_secret(client_key, token) ==
    IF grantgetter(client_key, token) THEN SecretOf(token) ELSE <<>>

get_access_token_secret(client_key, token) ==
    IF tokengetter(client_key, token) THEN SecretOf(token) ELSE <<>>

Called(fn, args, result) == [fn |-> fn, args |-> args, result |-> result]

ValidatorFrame ==
    UNCHANGED <<app, getters, validator, server, grants, tokens, consent,
                verifierOf, verifiers, exchanges, handlerRuns, resp>>

ValidateTimestampAndNonce ==
    \E client_key \in {TokenOwner}, token \in {None, "a1"},
       nonce \in Nonces, timestamp \in Timestamps :
        /\ Len(nonceLog) < MaxLog
        /\ nonceLog' = Append(nonceLog,
               [client_key |-> client_key, token |-> token, nonce |-> nonce,
                timestamp |-> timestamp,
                result |-> validate_timestamp_and_nonce(client_key, timestamp, nonce, token)])
        /\ UNCHANGED vres
        /\ ValidatorFrame

ValidateRedirectUri ==
    \E client_key \in ClientKeys, redirect_uri \in Uris \cup {None} :
        /\ vres' = Called("validate_redirect_uri", <<client_key, redirect_uri>>,
                          Py(validate_redirect_uri(client_key, redirect_uri)))
        /\ UNCHANGED nonceLog
        /\ ValidatorFrame

ValidateRealm ==
    \E token \in AccessKeys, required_realm \in Realms :
        /\ vres' = Called("validate_realm", <<TokenOwner, token, required_realm>>,
                          validate_realm(TokenOwner, token, required_realm))
        /\ UNCHANGED nonceLog
        /\ ValidatorFrame

ValidateVerifier ==
    \E token \in TokenKeys, verifier \in Verifiers :
        /\ vres' = Called("validate_verifier", <<TokenOwner, token, verifier>>,
                          Py(validate_verifier(TokenOwner, token, verifier)))
        /\ UNCHANGED nonceLog
        /\ ValidatorFrame

VerifyRequestToken ==
    \E token \in TokenKeys :
        /\ vres' = Called("verify_request_token", <<token>>,
                          Py(verify_request_token(token)))
        /\ UNCHANGED nonceLog
        /\ ValidatorFrame

ValidateKeys ==
    \E client_key \in ClientKeys, token \in TokenKeys \cup AccessKeys :
        \/ /\ vres' = Called("validate_client_key", <<client_key>>,
                             Py(validate_client_key(client_key)))
           /\ token = "t1"
           /\ UNCHANGED nonceLog
           /\ ValidatorFrame
        \/ /\ vres' = Called("validate_request_token", <<client_key, token>>,
                             Py(validate_request_token(client_key, token)))
           /\ UNCHANGED nonceLog
           /\ ValidatorFrame
        \/ /\ vres' = Called("validate_access_token", <<client_key, token>>,
                             Py(validate_access_token(client_key, token)))
           /\ UNCHANGED nonceLog
           /\ ValidatorFrame

ValidateRealms ==
    \E client_key \in ClientKeys, token \in TokenKeys, realms \in SUBSET Realms :
        \/ /\ vres' = Called("get_default_realms", <<client_key>>,
                             get_default_realms(client_key))
           /\ token = "t1" /\ realms = {}
           /\ UNCHANGED nonceLog
           /\ ValidatorFrame
        \/ /\ \E realm \in realms :
                 vres' = Called("validate_requested_realm", <<client_key, realm>>,
                                Py(validate_requested_realm(client_key, realm)))
           /\ Cardinality(realms) = 1 /\ token = "t1"
           /\ UNCHANGED nonceLog
           /\ ValidatorFrame
        \/ /\ vres' = Called("verify_realms", <<token, realms>>,
                             Py(verify_realms(token, realms)))
           /\ client_key = TokenOwner
           /\ UNCHANGED nonceLog
           /\ ValidatorFrame

GetSecrets ==
    \E client_key \in ClientKeys, token \in TokenKeys \cup AccessKeys :
        \/ /\ vres' = Called("get_request_token_secret", <<client_key, token>>,
                             get_request_token_secret(client_key, token))
           /\ UNCHANGED nonceLog
           /\ ValidatorFrame
        \/ /\ vres' = Called("get_access_token_secret", <<client_key, token>>,
                             get_access_token_secret(client_key, token))
           /\ UNCHANGED nonceLog
           /\ ValidatorFrame

NextValidator ==
    \/ ValidateRedirectUri
    \/ ValidateRealms
    \/ GetSecrets
    \/ ValidateRealm
    \/ ValidateVerifier
    \/ VerifyRequestToken
    \/ ValidateKeys

SpecValidator == Init /\ [][NextValidator]_vars

NextNonce == ValidateTimestampAndNonce

SpecNonce == Init /\ [][NextNonce]_vars

Next ==
    \/ InitApp
    \/ ClientGetter
    \/ TokenGetter
    \/ GrantGetter
    \/ AuthorizeHandler
    \/ RequestTokenHandler
    \/ AccessTokenHandler
    \/ RequireOAuth

Spec == Init /\ [][Next]_vars
\* =================================================================
\* The claims
\* =================================================================
\* A request ended in the failure `code`: it was not answered with the
\* wrapped function's value or a token, and the answer names the failure.
Failed(r, code) ==
    /\ r.kind \in {"raise", "redirect", "abort"}
    /\ r.detail = code

\* The guard's denial: abort(403).
Denied403(r) == r.kind = "abort" /\ r.detail = "403"

\* What the store and the authorization responses hold of the tokens.
Persisted == <<grants, tokens, consent, verifierOf, verifiers>>

\* C1: for every request token at most one exchange attempt presenting its
\* verifier succeeds, and an attempt on a token that was already exchanged
\* fails with TokenAlreadyExchanged.
C1_SingleExchange ==
    /\ \A t \in TokenKeys : exchanges[t] <= 1
    /\ (resp.handler = "access_token" /\ resp.verifierOk /\ resp.state = "Exchanged")
          => Failed(resp, "TokenAlreadyExchanged")

\* The timestamps inside the validity window [now - window, now + skew].
InWindow(timestamp) == timestamp \in {1, 2}

SameTuple(a, b) ==
    /\ a.client_key = b.client_key
    /\ a.token = b.token
    /\ a.nonce = b.nonce
    /\ a.timestamp = b.timestamp

\* C2: the same (client_key, token, nonce, timestamp), its timestamp inside
\* the window, presented twice to validate_timestamp_and_nonce is accepted
\* the first time and rejected the second.
C2_ReplayRejected ==
    \A i, j \in 1..Len(nonceLog) :
        (/\ i < j
         /\ SameTuple(nonceLog[i], nonceLog[j])
         /\ InWindow(nonceLog[i].timestamp)
         /\ \A k \in 1..(i - 1) : ~SameTuple(nonceLog[k], nonceLog[i]))
        => (nonceLog[i].result /\ ~nonceLog[j].result)

\* C3: two validations carrying the same (client_key, token, nonce) are
\* never both accepted, in whatever order they run.
C3_NonceAcceptedOnce ==
    \A i, j \in 1..Len(nonceLog) :
        (/\ i # j
         /\ nonceLog[i].client_key = nonceLog[j].client_key
         /\ nonceLog[i].token = nonceLog[j].token
         /\ nonceLog[i].nonce = nonceLog[j].nonce)
        => ~(nonceLog[i].result /\ nonceLog[j].result)

\* C4: a request to a protected resource whose required realms are not all
\* among the access token's realms is denied by the guard.
C4_RealmsEnforced ==
    (resp.handler = "resource" /\ server /\ ~resp.realmsOk) => Denied403(resp)

\* C5: validate_redirect_uri is true exactly when the client exists and the
\* URI is one of its registered URIs, or it registered none and none is
\* supplied.
C5_RedirectUri ==
    vres.fn = "validate_redirect_uri" =>
        LET client_key == vres.args[1]
            redirect_uri == vres.args[2]
            registered == IF client_key \in RegisteredClients
                          THEN ClientRecord(client_key).redirect_uris ELSE {}
        IN  (vres.result = "True") <=>
                /\ client_key \in RegisteredClients
                /\ \/ redirect_uri \in registered
                   \/ (registered = {} /\ redirect_uri = None)

C5_Witness ==
    /\ vres.fn = "validate_redirect_uri"
    /\ vres.args = <<"c2", None>>
    /\ vres.result = "True"

\* C6: an exchange presenting a verifier other than the one bound to the
\* request token at approval fails with InvalidVerifier, and no access
\* token is issued.
C6_WrongVerifierFails ==
    (resp.handler = "access_token" /\ resp.state = "Authorized" /\ ~resp.verifierOk)
        => (Failed(resp, "InvalidVerifier") /\ tokens = StoredTokens)

\* C7: an exchange attempt on a request token that is Issued, Denied or
\* already Exchanged fails: an access token is issued for an Authorized
\* token only.
C7_OnlyAuthorizedExchanges ==
    (resp.handler = "access_token" /\ resp.state \in {"Issued", "Denied", "Exchanged"})
        => resp.kind \in {"raise", "redirect", "abort"}

C9_DenyRedirects ==
    (resp.handler = "authorize" /\ resp.method = "POST" /\ resp.asked /\ ~resp.fret)
        => /\ ~resp.created
           /\ resp.verifier = None
           /\ resp.kind = "redirect"
           /\ resp.detail = "denied"

\* C10: when a check of the guard fails the wrapped handler is not run and
\* the request is answered with 403.
C10_GuardDenies ==
    (resp.handler = "resource" /\ server /\ ~resp.checksOk)
        => (handlerRuns = 0 /\ Denied403(resp))

\* C11: after a complete flow (a request token approved and exchanged), a
\* correctly signed request with a fresh nonce, an access token of the store
\* and no required realms is granted: the wrapped handler is run.
C11_FlowGrantsAccess ==
    (/\ resp.handler = "resource"
     /\ resp.checksOk
     /\ resp.required = {}
     /\ \E t \in TokenKeys : consent[t] = "approved" /\ exchanges[t] > 0)
    => (resp.kind = "f_result" /\ handlerRuns > 0)

\* C12: an OAuth1Error raised by the endpoint during request-token issuance
\* or during the confirmation of an authorization never leaves the handler:
\* the handler returns a redirect carrying the error, to the redirect_uri of
\* the request when there is one.
C12_ErrorsRedirect ==
    (resp.handler \in {"authorize", "request_token"} /\ resp.lib = "OAuth1Error")
    => /\ resp.kind = "redirect"
       /\ resp.detail = "error"
       /\ (resp.redirect_uri # None => resp.target = resp.redirect_uri)

\* C13: every predicate of the validator returns a boolean for every input
\* and never raises.
C13_PredicatesTotal ==
    vres.fn \in {"validate_client_key", "validate_request_token",
                 "validate_access_token", "validate_redirect_uri",
                 "validate_realm", "validate_verifier"}
    => vres.result \in {"True", "False"}

\* C15: validate_timestamp_and_nonce rejects every timestamp outside the
\* window, whatever the nonce.
C15_WindowEnforced ==
    \A i \in 1..Len(nonceLog) :
        ~InWindow(nonceLog[i].timestamp) => ~nonceLog[i].result

\* C16: the request token of a successful issuance is persisted: the
\* request-token lookup for its client and key finds it.
C16_IssuedTokenFound ==
    (resp.handler = "request_token" /\ resp.kind = "response")
    => validate_request_token(TokenOwner, resp.token)

\* C17: when the owner approves and the authorization response is created,
\* the verifier of the redirect is the one bound to (saved for) the request
\* token, and the redirect carries the token's key and that verifier.
C17_VerifierBound ==
    (resp.handler = "authorize" /\ resp.method = "POST" /\ resp.fret /\ resp.created)
    => /\ resp.kind = "redirect"
       /\ resp.detail = "verifier"
       /\ resp.verifier \in Verifiers
       /\ verifiers[resp.token] = resp.verifier

\* A step of a handler that reads `self.server`.
ServerRead ==
    /\ getters' = getters
    /\ app' = app
    /\ resp'.serverExc # "unread"

C19_Namespaces ==
    /\ vres.fn = "validate_access_token"
          => (vres.result = "True" <=> (vres.args[2] \in tokens /\ vres.args[1] = TokenOwner))
    /\ vres.fn = "get_access_token_secret"
          => (vres.result # <<>> <=> (vres.args[2] \in tokens /\ vres.args[1] = TokenOwner))
    /\ vres.fn = "validate_request_token"
          => (vres.result = "True" <=> (vres.args[2] \in grants /\ vres.args[1] = TokenOwner))
    /\ vres.fn = "get_request_token_secret"
          => (vres.result # <<>> <=> (vres.args[2] \in grants /\ vres.args[1] = TokenOwner))

C19_Witness ==
    /\ vres.fn = "validate_access_token"
    /\ vres.args = <<TokenOwner, "t1">>
    /\ "t1" \in grants
    /\ vres.result = "False"

\* C20: the authorization endpoint creates a verifier on an approved POST
\* only: a GET that reaches the wrapped function calls it and creates no
\* authorization response, and a method other than GET and POST neither
\* calls the wrapped function nor creates one.
C20_OnlyApprovedPost ==
    [][/\ (resp'.handler = "authorize" /\ resp'.method = "GET")
            => /\ ~resp'.created
               /\ resp'.asked <=> resp'.kind = "f_result"
               /\ verifierOf' = verifierOf /\ verifiers' = verifiers
       /\ (resp'.handler = "authorize" /\ resp'.method \notin {"GET", "POST"})
            => /\ ~resp'.asked /\ ~resp'.created
               /\ verifierOf' = verifierOf /\ verifiers' = verifiers
       /\ (verifierOf' # verifierOf \/ verifiers' # verifiers)
            => (resp'.handler = "authorize" /\ resp'.method = "POST" /\ resp'.fret)
      ]_vars

C20_Witness ==
    /\ resp.handler = "authorize"
    /\ resp.method = "GET"
    /\ resp.asked
    /\ resp.kind = "f_result"

====
